---- MODULE Spec2Model ----
(***************************************************************************)
(* Model of the supervised command execution core of the Tauri back end:   *)
(* src-tauri/src/scoop.rs (Scoop detection, bootstrap, package install and *)
(* uninstall, the detection cache) and src-tauri/src/winsw.rs (WinSW       *)
(* service actions).                                                       *)
(*                                                                         *)
(* A Rust String is a sequence of one-character strings, so that trim,     *)
(* join, format! and contains are computed and not assumed.  Option<T> is  *)
(* a sequence of length at most one: None is <<>>, Some(x) is <<x>>.       *)
(* Result<T, E> is <<"Ok", v>> or <<"Err", e>>.                            *)
(*                                                                         *)
(* An async function that awaits external processes is an operator from a  *)
(* world w (the detection cache and the log of what the call did so far)   *)
(* to the SET of [w, r] pairs it can end in: one pair per behaviour of the *)
(* processes it spawns.  A public operation is one action: it picks one    *)
(* pair, installs its cache and records the call.  That is specification   *)
(* Spec.                                                                   *)
(*                                                                         *)
(* Specification SpecCache looks inside cache_get and cache_put: tasks     *)
(* that run them concurrently, step by step, on the OnceCell (cell) and    *)
(* the RwLock (lock) that hold the cache.                                  *)
(*                                                                         *)
(* Specification SpecRace runs is_scoop_installed and install_scoop in     *)
(* those tasks: each observes or changes the machine (scoop_dir, whether   *)
(* the scoop directory exists) and then goes through cache_get and         *)
(* cache_put step by step.                                                 *)
(***************************************************************************)
EXTENDS Integers, Sequences, FiniteSets, TLC

VARIABLES cache, call, prev, cell, lock, tasks, written, scoop_dir

vars == <<cache, call, prev, cell, lock, tasks, written, scoop_dir>>

----------------------------------------------------------------------------
(* Option and Result *)

None == <<>>

Some(x) == <<x>>

IsSome(o) == o # <<>>

Unwrap(o) == o[1]

UnwrapOr(o, d) == IF o = <<>> THEN d ELSE o[1]

Ok(v) == <<"Ok", v>>

Err(e) == <<"Err", e>>

IsOk(r) == r[1] = "Ok"

IsErr(r) == r[1] = "Err"

(* Result::ok(): Ok(v) -> Some(v), Err(_) -> None *)
ResultOk(r) == IF r[1] = "Ok" THEN <<r[2]>> ELSE <<>>

Min(a, b) == IF a <= b THEN a ELSE b

----------------------------------------------------------------------------
(* Strings *)

STR_scoop_install ==
    <<"s", "c", "o", "o", "p", " ", "i", "n", "s", "t", "a", "l", "l">>

STR_global ==
    <<"-", "-", "g", "l", "o", "b", "a", "l">>

STR_scoop_uninstall_purge ==
    <<"s", "c", "o", "o", "p", " ", "u", "n", "i", "n", "s", "t", "a", "l",
    "l", " ", "-", "-", "p", "u", "r", "g", "e", " ">>

STR_scoop_uninstall ==
    <<"s", "c", "o", "o", "p", " ", "u", "n", "i", "n", "s", "t", "a", "l",
    "l", " ">>

STR_scoop_version ==
    <<"s", "c", "o", "o", "p", " ", "-", "-", "v", "e", "r", "s", "i", "o",
    "n">>

STR_NoProfile ==
    <<"-", "N", "o", "P", "r", "o", "f", "i", "l", "e">>

STR_ExecutionPolicy ==
    <<"-", "E", "x", "e", "c", "u", "t", "i", "o", "n", "P", "o", "l", "i",
    "c", "y">>

STR_Bypass ==
    <<"B", "y", "p", "a", "s", "s">>

STR_Command ==
    <<"-", "C", "o", "m", "m", "a", "n", "d">>

set_policy ==
    <<"S", "e", "t", "-", "E", "x", "e", "c", "u", "t", "i", "o", "n", "P",
    "o", "l", "i", "c", "y", " ", "-", "E", "x", "e", "c", "u", "t", "i",
    "o", "n", "P", "o", "l", "i", "c", "y", " ", "R", "e", "m", "o", "t",
    "e", "S", "i", "g", "n", "e", "d", " ", "-", "S", "c", "o", "p", "e",
    " ", "C", "u", "r", "r", "e", "n", "t", "U", "s", "e", "r", " ", "-",
    "F", "o", "r", "c", "e">>

install_cmd ==
    <<"I", "n", "v", "o", "k", "e", "-", "R", "e", "s", "t", "M", "e", "t",
    "h", "o", "d", " ", "-", "U", "r", "i", " ", "h", "t", "t", "p", "s",
    ":", "/", "/", "g", "e", "t", ".", "s", "c", "o", "o", "p", ".", "s",
    "h", " ", "|", " ", "I", "n", "v", "o", "k", "e", "-", "E", "x", "p",
    "r", "e", "s", "s", "i", "o", "n">>

DEFAULT_WINSW_PATH ==
    <<"w", "i", "n", "s", "w", ".", "e", "x", "e">>

PS_PATH ==
    <<"p", "w", "s", "h", ".", "e", "x", "e">>

(* Test strings: operands, extra arguments, process output *)
STR_git == <<"g", "i", "t">>

STR_git_padded == <<" ", "g", "i", "t", " ">>

STR_blank == <<" ", " ">>

STR_empty == <<>>

STR_arch == <<"-", "a">>

STR_out_v1 == <<"1", "\n">>

STR_out_v2 == <<"2">>

STR_warn == <<"w">>

STR_e == <<"e">>

STR_o == <<"o">>

IsWhitespace(c) == c \in {" ", "\n", "\t", "\r"}

RECURSIVE TrimStart(_)
TrimStart(s) ==
    IF s # <<>> /\ IsWhitespace(Head(s)) THEN TrimStart(Tail(s)) ELSE s

RECURSIVE TrimEnd(_)
TrimEnd(s) ==
    IF s # <<>> /\ IsWhitespace(s[Len(s)])
    THEN TrimEnd(SubSeq(s, 1, Len(s) - 1))
    ELSE s

(* str::trim *)
Trim(s) == TrimEnd(TrimStart(s))

(* [String]::join(sep) *)
RECURSIVE Join(_, _)
Join(parts, sep) ==
    IF parts = <<>> THEN <<>>
    ELSE IF Len(parts) = 1 THEN parts[1]
    ELSE parts[1] \o sep \o Join(Tail(parts), sep)

(* str::contains(pat) *)
Contains(s, pat) ==
    \E i \in 1..(Len(s) - Len(pat) + 1) : SubSeq(s, i, i + Len(pat) - 1) = pat

----------------------------------------------------------------------------
(* Program constants *)

DEFAULT_TIMEOUT_SECS == 600

BOOTSTRAP_TIMEOUT_SECS == 120

VERSION_CHECK_TIMEOUT_SECS == 10

CACHE_TTL_SECS == 60

WINSW_DEFAULT_TIMEOUT_SECS == 30

----------------------------------------------------------------------------
(* Bounds of the model *)

(* An entry's age is tracked up to CACHE_TTL_SECS + AgeSlack seconds: the  *)
(* code only ever compares it with CACHE_TTL_SECS.                         *)
AgeSlack == 2

(* Seconds that pass in one Elapse step between two calls. *)
IdleSecs == 30

(* Seconds a slow process runs before it exits. *)
SlowSecs == 10

(* The timeout a caller passes when it passes one. *)
CallerTimeoutSecs == 20

(* Tasks that use the detection cache at the same time (SpecCache). *)
NumTasks == 2

----------------------------------------------------------------------------
(* The detection cache: DETECT_CACHE holds Option<DetectionCache>.         *)
(* last_check is an Instant that the code only reads through elapsed(), so *)
(* the entry carries elapsed = last_check.elapsed() in whole seconds.      *)

DetectionCache(elapsed, installed, version) ==
    [elapsed |-> elapsed, installed |-> installed, version |-> version]

DetectResp(installed, version, error, source, cached) ==
    [installed |-> installed, version |-> version, error |-> error,
     source |-> source, cached |-> cached]

(* The passing of secs seconds, seen from the cache entry. *)
Later(c, secs) ==
    IF c = None THEN None
    ELSE Some([c[1] EXCEPT
                 !.elapsed = Min(@ + secs, CACHE_TTL_SECS + AgeSlack)])

(* cache_get comparing with < where the code has <= *)
cache_get_strict(c) ==
    IF c # None /\ c[1].elapsed < CACHE_TTL_SECS
    THEN Some(DetectResp(c[1].installed, c[1].version, None, Some("cache"), TRUE))
    ELSE None

cache_get(c) ==
    IF c # None /\ c[1].elapsed <= CACHE_TTL_SECS
    THEN Some(DetectResp(c[1].installed, c[1].version, None, Some("cache"), TRUE))
    ELSE None

(* Instant::now() has elapsed() = 0 *)
cache_put(installed, version) ==
    Some(DetectionCache(0, installed, version))

----------------------------------------------------------------------------
(* The world a call runs in: the cache and the log of what the call did.   *)

World(c) == [cache |-> c, log |-> <<>>]

(* ev: "cache_hit", "cache_miss", "cache_put", "spawn" (a child process    *)
(* was started) or "spawn_err" (spawn() failed).  For a spawn, child is    *)
(* the child process when the supervising function returns ("reaped" or    *)
(* "running") and status the exit status the supervisor obtained, if any.  *)
(* env is the environment passed to a WinSW process with envs(&env) (that  *)
(* of a PowerShell process is not tracked: None), and proc the behaviour   *)
(* of the WinSW process that was started.                                  *)
Event(ev, prog, args, timeout_secs, child, status) ==
    [ev |-> ev, prog |-> prog, args |-> args, timeout_secs |-> timeout_secs,
     child |-> child, status |-> status, env |-> None, proc |-> None]

Logged(w, e) == [w EXCEPT !.log = Append(@, e)]

Wait(w, secs) == [w EXCEPT !.cache = Later(@, secs)]

(* cache_get().await as a step of a call *)
DoCacheGet(w) ==
    LET hit == cache_get(w.cache)
    IN  [w |-> Logged(w, Event(IF hit # None THEN "cache_hit" ELSE "cache_miss",
                               <<>>, <<>>, 0, "", None)),
         r |-> hit]

(* cache_put(..).await as a step of a call *)
DoCachePut(w, installed, version) ==
    Logged([w EXCEPT !.cache = cache_put(installed, version)],
           Event("cache_put", <<>>, <<>>, 0, "", None))

(* Every continuation k, applied to every outcome of S. *)
Bind(S, k(_)) == UNION {k(x) : x \in S}

Spawns(log) == SelectSeq(log, LAMBDA e : e.ev = "spawn")

Puts(log) == SelectSeq(log, LAMBDA e : e.ev = "cache_put")

----------------------------------------------------------------------------
(* External processes.  A behaviour is what a process does once started    *)
(* with its pipes drained: it exits after secs seconds with a status and   *)
(* its output, or it never exits ("hang").  "no_spawn" is spawn() failing, *)
(* "wait_err" is the wait failing with an I/O error.  fills_pipe: the      *)
(* process writes more than a pipe holds and blocks until it is read.      *)

Behaviour(kind, code, stdout, stderr, secs, fills_pipe) ==
    [kind |-> kind, code |-> code, stdout |-> stdout, stderr |-> stderr,
     secs |-> secs, fills_pipe |-> fills_pipe]

Behaviours ==
    { Behaviour("exit", Some(0), STR_out_v1, <<>>, 0, FALSE),
      Behaviour("exit", Some(0), STR_out_v1, <<>>, SlowSecs, FALSE),
      Behaviour("exit", Some(0), STR_out_v2, STR_warn, 0, FALSE),
      Behaviour("exit", Some(0), STR_o, <<>>, 0, TRUE),
      Behaviour("exit", Some(1), <<>>, STR_e, 0, FALSE),
      Behaviour("exit", Some(2), STR_o, <<>>, SlowSecs, FALSE),
      Behaviour("exit", None, <<>>, <<>>, 0, FALSE),
      Behaviour("hang", None, <<>>, <<>>, 0, FALSE),
      Behaviour("no_spawn", None, <<>>, <<>>, 0, FALSE),
      Behaviour("wait_err", None, <<>>, <<>>, 0, FALSE) }

(* std::process::Output and ExitStatus *)
Output(code, stdout, stderr) ==
    [status |-> [code |-> code], stdout |-> stdout, stderr |-> stderr]

success(status) == status.code = Some(0)

----------------------------------------------------------------------------
(* scoop.rs: responses and errors *)

ActionResp(ok, stdout, stderr, code, error) ==
    [ok |-> ok, stdout |-> stdout, stderr |-> stderr, code |-> code,
     error |-> error]

DetectCmdResp(ok, installed, version, error, cached) ==
    [ok |-> ok, installed |-> installed, version |-> version,
     error |-> error, cached |-> cached]

(* enum ScoopError; a field a variant does not have is None / 0 / <<>> *)
ScoopError(kind, code, secs, text) ==
    [kind |-> kind, code |-> code, secs |-> secs, text |-> text]

PowerShellNotAvailable == ScoopError("PowerShellNotAvailable", None, 0, <<>>)

CommandSpawn == ScoopError("CommandSpawn", None, 0, <<>>)

Timeout(secs) == ScoopError("Timeout", None, secs, <<>>)

CommandFailed(code, stderr) == ScoopError("CommandFailed", code, 0, stderr)

InvalidPackageName == ScoopError("InvalidPackageName", None, 0, <<>>)

(* Display of ScoopError (#[error("...")]): the message template of the    *)
(* variant (named here by the variant) followed by its formatted fields.   *)
ScoopErrorToString(e) ==
    CASE e.kind = "PowerShellNotAvailable" -> <<"PowerShell unavailable: {0}">>
      [] e.kind = "CommandSpawn" -> <<"command spawn failed: {0}">>
      [] e.kind = "Timeout" -> <<"command timed out: {secs}s", e.secs>>
      [] e.kind = "CommandFailed" ->
            <<"command failed, exit code: {code:?}, error: {stderr}",
              e.code, e.text>>
      [] e.kind = "InvalidPackageName" -> <<"package name invalid or empty">>

(* char::to_lowercase on the characters an action name is written in *)
ToLowerChar(c) ==
    CASE c = "A" -> "a"
      [] c = "B" -> "b"
      [] c = "C" -> "c"
      [] c = "D" -> "d"
      [] c = "E" -> "e"
      [] c = "F" -> "f"
      [] c = "G" -> "g"
      [] c = "H" -> "h"
      [] c = "I" -> "i"
      [] c = "J" -> "j"
      [] c = "K" -> "k"
      [] c = "L" -> "l"
      [] c = "M" -> "m"
      [] c = "N" -> "n"
      [] c = "O" -> "o"
      [] c = "P" -> "p"
      [] c = "Q" -> "q"
      [] c = "R" -> "r"
      [] c = "S" -> "s"
      [] c = "T" -> "t"
      [] c = "U" -> "u"
      [] c = "V" -> "v"
      [] c = "W" -> "w"
      [] c = "X" -> "x"
      [] c = "Y" -> "y"
      [] c = "Z" -> "z"
      [] OTHER -> c

(* The process environment and get_enhanced_env of winsw.rs.  A           *)
(* HashMap<String, String> is a function from names to values; names are   *)
(* compared as the HashMap compares them, as written.                      *)

SYS_System32 ==
    <<"C", ":", "\\", "W", "i", "n", "d", "o", "w", "s", "\\", "S", "y",
      "s", "t", "e", "m", "3", "2">>

SYS_Windows ==
    <<"C", ":", "\\", "W", "i", "n", "d", "o", "w", "s">>

SYS_Wbem ==
    <<"C", ":", "\\", "W", "i", "n", "d", "o", "w", "s", "\\", "S", "y",
      "s", "t", "e", "m", "3", "2", "\\", "W", "b", "e", "m">>

SYS_PowerShell ==
    <<"C", ":", "\\", "W", "i", "n", "d", "o", "w", "s", "\\", "S", "y",
      "s", "t", "e", "m", "3", "2", "\\", "W", "i", "n", "d", "o", "w",
      "s", "P", "o", "w", "e", "r", "S", "h", "e", "l", "l", "\\", "v",
      "1", ".", "0">>

system_paths == <<SYS_System32, SYS_Windows, SYS_Wbem, SYS_PowerShell>>

STR_c == <<"c">>

STR_h == <<"h">>

STR_t == <<"t">>

STR_D == <<"D", ":", "\\", "b">>

STR_windows_lc ==
    <<"c", ":", "\\", "w", "i", "n", "d", "o", "w", "s">>

(* HashMap::insert *)
MapInsert(m, k, v) ==
    [x \in DOMAIN m \cup {k} |-> IF x = k THEN v ELSE m[x]]

(* str::split(';'): the pieces between the separators, empty ones kept *)
RECURSIVE SplitFrom(_, _, _)
SplitFrom(s, i, piece) ==
    IF i > Len(s) THEN <<piece>>
    ELSE IF s[i] = ";" THEN <<piece>> \o SplitFrom(s, i + 1, <<>>)
    ELSE SplitFrom(s, i + 1, Append(piece, s[i]))

Split(s) == SplitFrom(s, 1, <<>>)

(* str::eq_ignore_ascii_case *)
eq_ignore_ascii_case(a, b) ==
    /\ Len(a) = Len(b)
    /\ \A i \in 1..Len(a) : ToLowerChar(a[i]) = ToLowerChar(b[i])

(* for sys_path in system_paths { if !paths.iter().any(..) { push } } *)
RECURSIVE push_system_paths(_, _)
push_system_paths(paths, i) ==
    IF i > Len(system_paths) THEN paths
    ELSE push_system_paths(
           IF \E j \in 1..Len(paths) :
                eq_ignore_ascii_case(paths[j], system_paths[i])
           THEN paths ELSE Append(paths, system_paths[i]),
           i + 1)

(* std::env::var(name) of a process whose environment is inherited *)
env_var(inherited, name) ==
    IF name \in DOMAIN inherited THEN Ok(inherited[name])
    ELSE Err("NotPresent")

(* get_enhanced_env, lines 125-143: the system paths appended to PATH *)
with_system_paths(env) ==
    IF "PATH" \in DOMAIN env
    THEN MapInsert(env, "PATH",
                   Join(push_system_paths(Split(env["PATH"]), 1), <<";">>))
    ELSE env

(* get_enhanced_env, lines 145-155: TEMP and TMP *)
with_temp(env, inherited) ==
    LET e1 == IF "TEMP" \notin DOMAIN env /\ IsOk(env_var(inherited, "TEMP"))
              THEN MapInsert(env, "TEMP", env_var(inherited, "TEMP")[2])
              ELSE env
    IN  IF "TMP" \notin DOMAIN e1 /\ IsOk(env_var(inherited, "TMP"))
        THEN MapInsert(e1, "TMP", env_var(inherited, "TMP")[2])
        ELSE e1

(* get_enhanced_env, lines 157-160: SystemRoot *)
with_system_root(env) ==
    IF "SystemRoot" \notin DOMAIN env
    THEN MapInsert(env, "SystemRoot", SYS_Windows)
    ELSE env

(* get_enhanced_env, lines 162-167: the caller's variables *)
with_custom_env(env, custom_env) ==
    IF custom_env # None
    THEN [x \in DOMAIN env \cup DOMAIN Unwrap(custom_env) |->
            IF x \in DOMAIN Unwrap(custom_env) THEN Unwrap(custom_env)[x]
            ELSE env[x]]
    ELSE env

(* get_enhanced_env merging the caller's variables before its own *)
get_enhanced_env_custom_first(custom_env, inherited) ==
    with_system_root(
      with_temp(with_system_paths(with_custom_env(inherited, custom_env)),
                inherited))

(* fn get_enhanced_env(custom_env), in a process that inherited the        *)
(* environment inherited (std::env::vars().collect())                      *)
get_enhanced_env(custom_env, inherited) ==
    with_custom_env(
      with_system_root(with_temp(with_system_paths(inherited), inherited)),
      custom_env)

(* Environments a process inherits: none at all; one with PATH, TEMP and   *)
(* SystemRoot; one whose PATH has a system path in another case.           *)
InheritedEnvs ==
    { <<>>,
      [PATH |-> STR_D, TEMP |-> STR_t, SystemRoot |-> STR_D, K |-> STR_h],
      [PATH |-> STR_windows_lc \o <<";">> \o STR_D, K |-> STR_h] }

(* req.env_vars *)
EnvVars ==
    { None,
      Some([K |-> STR_c]),
      Some([PATH |-> STR_c, SystemRoot |-> STR_c, TMP |-> STR_c, N |-> STR_c]) }

(* The host a call runs on: powershell_path(), which::which("scoop") and   *)
(* the Scoop home directory (None when no variable names one, Some(b) when *)
(* one does and b says whether it exists); for a service action, whether   *)
(* the config file exists and the environment the process inherited.       *)
Hosts ==
    [ps : {None, Some(PS_PATH)}, which_scoop : BOOLEAN,
     home : {None, Some(FALSE), Some(TRUE)}, config_exists : BOOLEAN,
     env : InheritedEnvs]

powershell_path(host) == host.ps

build_ps_command_args(script) ==
    <<STR_NoProfile, STR_ExecutionPolicy, STR_Bypass, STR_Command, script>>

(* fn parse_output *)
parse_output(output) == IF output = <<>> THEN None ELSE Some(output)

(* Command::spawn()? followed by timeout(secs, child.wait_with_output()):  *)
(* wait_with_output owns the child and drains both pipes; when the timeout *)
(* wins, the future and with it the Child handle is dropped, and a tokio   *)
(* Child that is dropped without kill_on_drop keeps running.               *)
spawn_wait_with_output(w, prog, args, timeout_secs) ==
    UNION {
      CASE b.kind = "no_spawn" ->
             {[w |-> Logged(w, Event("spawn_err", prog, args, timeout_secs, "",
                                       None)),
               r |-> Err(CommandSpawn)]}
        [] b.kind = "exit" /\ b.secs < timeout_secs ->
             {[w |-> Wait(Logged(w, Event("spawn", prog, args, timeout_secs,
                                          "reaped", Some([code |-> b.code]))),
                          b.secs),
               r |-> Ok(Output(b.code, b.stdout, b.stderr))]}
        [] b.kind = "wait_err" ->
             {[w |-> Logged(w, Event("spawn", prog, args, timeout_secs, st,
                                     None)),
               r |-> Err(CommandSpawn)] : st \in {"running", "reaped"}}
        [] OTHER ->
             {[w |-> Wait(Logged(w, Event("spawn", prog, args, timeout_secs,
                                          "running", None)), timeout_secs),
               r |-> Err(Timeout(timeout_secs))]}
      : b \in Behaviours }

(* execute_ps_command waiting for the default time whatever it is passed *)
execute_ps_command_default_timeout(w, ps_path, script, timeout_secs) ==
    spawn_wait_with_output(w, ps_path, build_ps_command_args(script),
                           DEFAULT_TIMEOUT_SECS)

execute_ps_command(w, ps_path, script, timeout_secs) ==
    spawn_wait_with_output(w, ps_path, build_ps_command_args(script),
                           timeout_secs)

try_scoop_version(w, host) ==
    LET ps == powershell_path(host)
    IN  IF ps = None THEN {[w |-> w, r |-> Err(PowerShellNotAvailable)]}
        ELSE { IF IsErr(x.r) THEN x
               ELSE IF success(x.r[2].status)
               THEN [w |-> x.w, r |-> Ok(Trim(x.r[2].stdout))]
               ELSE [w |-> x.w,
                     r |-> Err(CommandFailed(x.r[2].status.code,
                                             Trim(x.r[2].stderr)))]
               : x \in spawn_wait_with_output(
                          w, Unwrap(ps),
                          build_ps_command_args(STR_scoop_version),
                          VERSION_CHECK_TIMEOUT_SECS) }

scoop_version(w, host) == try_scoop_version(w, host)

detection_cache(w) == DoCacheGet(w)

(* the live check letting the version probe decide *)
is_scoop_installed_live_probe_decides(w, host) ==
    IF host.which_scoop
    THEN { [w |-> DoCachePut(x.w, IsOk(x.r), ResultOk(x.r)),
            r |-> Ok(IsOk(x.r))]
           : x \in try_scoop_version(w, host) }
    ELSE LET installed == UnwrapOr(host.home, FALSE)
         IN  {[w |-> DoCachePut(w, installed, None), r |-> Ok(installed)]}

(* the live check caching only a positive result *)
is_scoop_installed_live_positive_only(w, host) ==
    IF host.which_scoop
    THEN { [w |-> DoCachePut(x.w, TRUE, ResultOk(x.r)), r |-> Ok(TRUE)]
           : x \in try_scoop_version(w, host) }
    ELSE LET installed == UnwrapOr(host.home, FALSE)
         IN  {[w |-> IF installed THEN DoCachePut(w, installed, None) ELSE w,
               r |-> Ok(installed)]}

(* is_scoop_installed after a cache miss: the live check *)
is_scoop_installed_live(w, host) ==
    IF host.which_scoop
    THEN { [w |-> DoCachePut(x.w, TRUE, ResultOk(x.r)), r |-> Ok(TRUE)]
           : x \in try_scoop_version(w, host) }
    ELSE LET installed == UnwrapOr(host.home, FALSE)
         IN  {[w |-> DoCachePut(w, installed, None), r |-> Ok(installed)]}

is_scoop_installed(w, host) ==
    LET g == DoCacheGet(w)
    IN  IF g.r # None THEN {[w |-> g.w, r |-> Ok(Unwrap(g.r).installed)]}
        ELSE is_scoop_installed_live(g.w, host)

(* install_scoop writing the cache only when the version probe succeeded *)
install_scoop_script_done_needs_version(x, host) ==
    IF IsErr(x.r) THEN {x}
    ELSE LET out2 == x.r[2]
             ok == success(out2.status)
             stdout == parse_output(out2.stdout)
             stderr == parse_output(out2.stderr)
             code == UnwrapOr(out2.status.code, IF ok THEN 0 ELSE -1)
         IN  IF ok
             THEN { [w |-> IF IsOk(v.r) THEN DoCachePut(v.w, TRUE, ResultOk(v.r))
                           ELSE v.w,
                     r |-> Ok(ActionResp(ok, stdout, stderr, code, None))]
                    : v \in try_scoop_version(x.w, host) }
             ELSE {[w |-> x.w,
                    r |-> Err(CommandFailed(out2.status.code,
                                            UnwrapOr(stderr, <<>>)))]}

(* install_scoop recording in the cache that the install script failed *)
install_scoop_script_done_caches_failure(x, host) ==
    IF IsErr(x.r) THEN {x}
    ELSE LET out2 == x.r[2]
             ok == success(out2.status)
             stdout == parse_output(out2.stdout)
             stderr == parse_output(out2.stderr)
             code == UnwrapOr(out2.status.code, IF ok THEN 0 ELSE -1)
         IN  IF ok
             THEN { [w |-> DoCachePut(v.w, TRUE, ResultOk(v.r)),
                     r |-> Ok(ActionResp(ok, stdout, stderr, code, None))]
                    : v \in try_scoop_version(x.w, host) }
             ELSE {[w |-> DoCachePut(x.w, FALSE, None),
                    r |-> Err(CommandFailed(out2.status.code,
                                            UnwrapOr(stderr, <<>>)))]}

(* install_scoop once the install script has been waited for: x is what   *)
(* execute_ps_command(&ps, install_cmd, ..) ended in.                      *)
install_scoop_script_done(x, host) ==
    IF IsErr(x.r) THEN {x}
    ELSE LET out2 == x.r[2]
             ok == success(out2.status)
             stdout == parse_output(out2.stdout)
             stderr == parse_output(out2.stderr)
             code == UnwrapOr(out2.status.code, IF ok THEN 0 ELSE -1)
         IN  IF ok
             THEN { [w |-> DoCachePut(v.w, TRUE, ResultOk(v.r)),
                     r |-> Ok(ActionResp(ok, stdout, stderr, code, None))]
                    : v \in try_scoop_version(x.w, host) }
             ELSE {[w |-> x.w,
                    r |-> Err(CommandFailed(out2.status.code,
                                            UnwrapOr(stderr, <<>>)))]}

install_scoop(w, host, opts) ==
    LET ps == powershell_path(host)
        timeout_secs == UnwrapOr(opts.timeout_seconds, BOOTSTRAP_TIMEOUT_SECS)
        dry_run == UnwrapOr(opts.dry_run, FALSE)
        step2(x) == install_scoop_script_done(x, host)
        (* after the execution policy step has been waited for *)
        step1(x) ==
            IF IsErr(x.r) THEN {x}
            ELSE IF ~success(x.r[2].status)
            THEN {[w |-> x.w,
                   r |-> Err(CommandFailed(x.r[2].status.code, x.r[2].stderr))]}
            ELSE Bind(execute_ps_command(x.w, Unwrap(ps), install_cmd,
                                         timeout_secs), step2)
    IN  IF ps = None THEN {[w |-> w, r |-> Err(PowerShellNotAvailable)]}
        ELSE IF dry_run
        THEN {[w |-> w,
               r |-> Ok(ActionResp(TRUE, Some(set_policy \o <<"\n">> \o install_cmd),
                                   None, 0, None))]}
        ELSE Bind(execute_ps_command(w, Unwrap(ps), set_policy, timeout_secs),
                  step1)

ensure_scoop_installed(w, host, opts) ==
    LET (* the tool is there: report it, with a live version *)
        present(x) ==
            LET g == detection_cache(x.w)
                cached == g.r # None
            IN  { [w |-> v.w,
                   r |-> Ok(DetectResp(TRUE, ResultOk(v.r), None,
                                       Some("detect"), cached))]
                  : v \in try_scoop_version(g.w, host) }
        (* after install_scoop(opts).await? *)
        installed(y) ==
            IF IsErr(y.r) THEN {y}
            ELSE LET res == y.r[2]
                 IN  IF res.ok
                     THEN { [w |-> v.w,
                             r |-> Ok(DetectResp(TRUE, ResultOk(v.r), None,
                                                 Some("bootstrap"), FALSE))]
                            : v \in try_scoop_version(y.w, host) }
                     ELSE {[w |-> y.w,
                            r |-> Err(CommandFailed(Some(res.code),
                                                    UnwrapOr(res.stderr, <<>>)))]}
        detected(x) ==
            IF IsErr(x.r) THEN {x}
            ELSE IF x.r[2] THEN present(x)
            ELSE Bind(install_scoop(x.w, host, opts), installed)
    IN  Bind(is_scoop_installed(w, host), detected)

(* install_package asking the detection cache before it runs the command *)
install_package_detects_first(w, host, pkg_arg, opts) ==
    LET pkg == Trim(pkg_arg)
        ps == powershell_path(host)
        cmdline == Join(<<STR_scoop_install, pkg>>, <<" ">>)
        g == DoCacheGet(w)
    IN  IF pkg = <<>> THEN {[w |-> w, r |-> Err(InvalidPackageName)]}
        ELSE IF ps = None THEN {[w |-> w, r |-> Err(PowerShellNotAvailable)]}
        ELSE { IF IsErr(x.r) THEN x
               ELSE [w |-> IF g.r = None THEN DoCachePut(x.w, TRUE, None)
                           ELSE x.w,
                     r |-> Ok(ActionResp(TRUE, parse_output(x.r[2].stdout),
                                         parse_output(x.r[2].stderr), 0, None))]
               : x \in execute_ps_command(
                          g.w, Unwrap(ps), cmdline,
                          UnwrapOr(opts.timeout_seconds, DEFAULT_TIMEOUT_SECS)) }

(* install_package testing the package name after the command has run *)
install_package_validates_last(w, host, pkg_arg, opts) ==
    LET pkg == Trim(pkg_arg)
        ps == powershell_path(host)
        cmdline == Join(<<STR_scoop_install, pkg>>, <<" ">>)
    IN  IF ps = None THEN {[w |-> w, r |-> Err(PowerShellNotAvailable)]}
        ELSE { IF pkg = <<>> THEN [w |-> x.w, r |-> Err(InvalidPackageName)]
               ELSE IF IsErr(x.r) THEN x
               ELSE [w |-> x.w,
                     r |-> Ok(ActionResp(TRUE, parse_output(x.r[2].stdout),
                                         parse_output(x.r[2].stderr), 0, None))]
               : x \in execute_ps_command(
                          w, Unwrap(ps), cmdline,
                          UnwrapOr(opts.timeout_seconds, DEFAULT_TIMEOUT_SECS)) }

install_package(w, host, pkg_arg, opts) ==
    LET pkg == Trim(pkg_arg)
        timeout_secs == UnwrapOr(opts.timeout_seconds, DEFAULT_TIMEOUT_SECS)
        global == UnwrapOr(opts.global, FALSE)
        dry_run == UnwrapOr(opts.dry_run, FALSE)
        extra_args == UnwrapOr(opts.extra_args, <<>>)
        ps == powershell_path(host)
        cmd_parts == <<STR_scoop_install>>
                     \o (IF global THEN <<STR_global>> ELSE <<>>)
                     \o <<pkg>>
        cmdline == IF extra_args = <<>> THEN Join(cmd_parts, <<" ">>)
                   ELSE Join(cmd_parts, <<" ">>) \o <<" ">>
                        \o Join(extra_args, <<" ">>)
        done(x) ==
            IF IsErr(x.r) THEN x
            ELSE LET out == x.r[2]
                     ok == success(out.status)
                 IN  IF ok
                     THEN [w |-> x.w,
                           r |-> Ok(ActionResp(ok, parse_output(out.stdout),
                                               parse_output(out.stderr),
                                               UnwrapOr(out.status.code, 0),
                                               None))]
                     ELSE [w |-> x.w,
                           r |-> Err(CommandFailed(
                                       out.status.code,
                                       UnwrapOr(parse_output(out.stderr), <<>>)))]
    IN  IF pkg = <<>> THEN {[w |-> w, r |-> Err(InvalidPackageName)]}
        ELSE IF ps = None THEN {[w |-> w, r |-> Err(PowerShellNotAvailable)]}
        ELSE IF dry_run
        THEN {[w |-> w, r |-> Ok(ActionResp(TRUE, Some(cmdline), None, 0, None))]}
        ELSE { done(x)
               : x \in execute_ps_command(w, Unwrap(ps), cmdline, timeout_secs) }

(* uninstall_package looking for PowerShell before it tests the name *)
uninstall_package_shell_first(w, host, pkg_arg, purge, opts) ==
    LET pkg == Trim(pkg_arg)
        ps == powershell_path(host)
        cmdline == IF purge THEN STR_scoop_uninstall_purge \o pkg
                   ELSE STR_scoop_uninstall \o pkg
    IN  IF ps = None THEN {[w |-> w, r |-> Err(PowerShellNotAvailable)]}
        ELSE IF pkg = <<>> THEN {[w |-> w, r |-> Err(InvalidPackageName)]}
        ELSE IF UnwrapOr(opts.dry_run, FALSE)
        THEN {[w |-> w, r |-> Ok(ActionResp(TRUE, Some(cmdline), None, 0, None))]}
        ELSE { IF IsErr(x.r) THEN x
               ELSE IF success(x.r[2].status)
               THEN [w |-> x.w,
                     r |-> Ok(ActionResp(TRUE, parse_output(x.r[2].stdout),
                                         parse_output(x.r[2].stderr), 0, None))]
               ELSE [w |-> x.w,
                     r |-> Err(CommandFailed(
                                 x.r[2].status.code,
                                 UnwrapOr(parse_output(x.r[2].stderr), <<>>)))]
               : x \in execute_ps_command(
                          w, Unwrap(ps), cmdline,
                          UnwrapOr(opts.timeout_seconds, DEFAULT_TIMEOUT_SECS)) }

uninstall_package(w, host, pkg_arg, purge, opts) ==
    LET pkg == Trim(pkg_arg)
        timeout_secs == UnwrapOr(opts.timeout_seconds, DEFAULT_TIMEOUT_SECS)
        dry_run == UnwrapOr(opts.dry_run, FALSE)
        ps == powershell_path(host)
        cmdline == IF purge THEN STR_scoop_uninstall_purge \o pkg
                   ELSE STR_scoop_uninstall \o pkg
        done(x) ==
            IF IsErr(x.r) THEN x
            ELSE LET out == x.r[2]
                     ok == success(out.status)
                 IN  IF ok
                     THEN [w |-> x.w,
                           r |-> Ok(ActionResp(ok, parse_output(out.stdout),
                                               parse_output(out.stderr),
                                               UnwrapOr(out.status.code, 0),
                                               None))]
                     ELSE [w |-> x.w,
                           r |-> Err(CommandFailed(
                                       out.status.code,
                                       UnwrapOr(parse_output(out.stderr), <<>>)))]
    IN  IF pkg = <<>> THEN {[w |-> w, r |-> Err(InvalidPackageName)]}
        ELSE IF ps = None THEN {[w |-> w, r |-> Err(PowerShellNotAvailable)]}
        ELSE IF dry_run
        THEN {[w |-> w, r |-> Ok(ActionResp(TRUE, Some(cmdline), None, 0, None))]}
        ELSE { done(x)
               : x \in execute_ps_command(w, Unwrap(ps), cmdline, timeout_secs) }

(* Tauri commands of scoop.rs: each maps the library result to a response  *)

scoop_detect(w, host) ==
    LET detected(x) ==
            IF IsErr(x.r)
            THEN {[w |-> x.w,
                   r |-> DetectCmdResp(FALSE, FALSE, None,
                                       Some(ScoopErrorToString(x.r[2])), FALSE),
                   res |-> x.r]}
            ELSE { LET g == detection_cache(v.w)
                   IN  [w |-> g.w,
                        r |-> DetectCmdResp(TRUE, x.r[2], ResultOk(v.r), None,
                                            g.r # None),
                        res |-> x.r]
                   : v \in scoop_version(x.w, host) }
    IN  Bind(is_scoop_installed(w, host), detected)

(* match .. { Ok(r) => Ok(r), Err(e) => Ok(ActionResp { ok: false, .. }) } *)
ActionRespOf(r) ==
    IF IsOk(r) THEN r[2]
    ELSE ActionResp(FALSE, None, None, -1, Some(ScoopErrorToString(r[2])))

scoop_install(w, host, req) ==
    LET opts == [timeout_seconds |-> req.timeout_seconds, global |-> req.global,
                 dry_run |-> req.dry_run, extra_args |-> req.extra_args]
    IN  { [w |-> x.w, r |-> ActionRespOf(x.r), res |-> x.r]
          : x \in install_package(w, host, req.package, opts) }

scoop_uninstall(w, host, req) ==
    LET opts == [timeout_seconds |-> req.timeout_seconds, global |-> None,
                 dry_run |-> req.dry_run, extra_args |-> None]
    IN  { [w |-> x.w, r |-> ActionRespOf(x.r), res |-> x.r]
          : x \in uninstall_package(w, host, req.package,
                                    UnwrapOr(req.purge, FALSE), opts) }

scoop_ensure(w, host, req) ==
    LET opts == [timeout_seconds |-> req.timeout_seconds, dry_run |-> req.dry_run]
    IN  { [w |-> x.w,
           r |-> IF IsOk(x.r)
                 THEN DetectCmdResp(TRUE, x.r[2].installed, x.r[2].version,
                                    None, x.r[2].cached)
                 ELSE DetectCmdResp(FALSE, FALSE, None,
                                    Some(ScoopErrorToString(x.r[2])), FALSE),
           res |-> x.r]
          : x \in ensure_scoop_installed(w, host, opts) }

----------------------------------------------------------------------------
(* winsw.rs *)

STR_install == <<"i", "n", "s", "t", "a", "l", "l">>

STR_uninstall == <<"u", "n", "i", "n", "s", "t", "a", "l", "l">>

STR_start == <<"s", "t", "a", "r", "t">>

STR_stop == <<"s", "t", "o", "p">>

STR_restart == <<"r", "e", "s", "t", "a", "r", "t">>

STR_restart_force == <<"r", "e", "s", "t", "a", "r", "t", "!">>

STR_status == <<"s", "t", "a", "t", "u", "s">>

STR_refresh == <<"r", "e", "f", "r", "e", "s", "h">>

ALLOWED_ACTIONS ==
    << STR_install,
       STR_uninstall,
       STR_start,
       STR_stop,
       STR_restart,
       STR_restart_force,
       STR_status,
       STR_refresh >>

STR_START == <<"S", "T", "A", "R", "T">>


STR_stop_padded == <<" ", " ", "s", "t", "o", "p", " ", " ">>

STR_invalid == <<"i", "n", "v", "a", "l", "i", "d">>

STR_config == <<"s", ".", "x", "m", "l">>
(* str::to_lowercase *)
ToLowercase(s) == [i \in 1..Len(s) |-> ToLowerChar(s[i])]

(* [&str]::contains *)
SeqContains(seq, x) == \E i \in 1..Len(seq) : seq[i] = x

(* enum WinswError; a field a variant does not have is 0 / <<>> *)
WinswError(kind, secs, text) == [kind |-> kind, secs |-> secs, text |-> text]

(* Display of WinswError: the variant's message template and its field *)
WinswErrorToString(e) ==
    CASE e.kind = "UnsupportedAction" -> <<"unsupported WinSW action: {0}", e.text>>
      [] e.kind = "ConfigRequired" ->
            <<"command '{0}' needs a config file path (req.config)", e.text>>
      [] e.kind = "SpawnFailed" -> <<"cannot start WinSW: {0}">>
      [] e.kind = "WaitFailed" -> <<"waiting for WinSW output failed: {0}">>
      [] e.kind = "Timeout" -> <<"WinSW action timed out ({0}s)", e.secs>>
      [] e.kind = "ConfigNotFound" -> <<"config file does not exist: {0}", e.text>>

(* impl ActionResp of winsw.rs *)
ActionResp_success(stdout, stderr, code) ==
    ActionResp(TRUE, stdout, stderr, code, None)

ActionResp_failure(code, error) ==
    ActionResp(FALSE, None, None, code, Some(error))

requires_config(action) ==
    action \in { STR_install, STR_uninstall, STR_start, STR_stop,
                 STR_restart, STR_restart_force, STR_status, STR_refresh }

(* validate_action without the trim *)
validate_action_untrimmed(action) ==
    LET action_lc == ToLowercase(action)
    IN  IF ~SeqContains(ALLOWED_ACTIONS, action_lc)
        THEN Err(WinswError("UnsupportedAction", 0, action))
        ELSE Ok(action_lc)

validate_action(action) ==
    LET action_lc == ToLowercase(Trim(action))
    IN  IF ~SeqContains(ALLOWED_ACTIONS, action_lc)
        THEN Err(WinswError("UnsupportedAction", 0, action))
        ELSE Ok(action_lc)

(* build_command_args without the Path::exists test *)
build_command_args_unchecked(action, config, host) ==
    IF requires_config(action)
    THEN IF config # None
         THEN Ok(<<action, Unwrap(config)>>)
         ELSE Err(WinswError("ConfigRequired", 0, action))
    ELSE Ok(<<action>>)

build_command_args(action, config, host) ==
    IF requires_config(action)
    THEN IF config # None
         THEN IF ~host.config_exists
              THEN Err(WinswError("ConfigNotFound", 0, Unwrap(config)))
              ELSE Ok(<<action, Unwrap(config)>>)
         ELSE Err(WinswError("ConfigRequired", 0, action))
    ELSE Ok(<<action>>)

(* fn read_output: read_to_end of a pipe of the exited process *)
read_output(stream) == IF stream # <<>> THEN Some(stream) ELSE None

(* child.wait() neither reads nor closes the child's stdout and stderr: a  *)
(* process that fills a pipe stays blocked in its write until the timeout. *)
execute_winsw(w, host, winsw_path, action, config, timeout_secs, custom_env) ==
    LET built == build_command_args(action, config, host)
        args == built[2]
        env == get_enhanced_env(custom_env, host.env)
        Started(ev, child, status, b) ==
            [Event(ev, winsw_path, args, timeout_secs, child, status)
               EXCEPT !.env = Some(env), !.proc = Some(b)]
        run(b) ==
            CASE b.kind = "no_spawn" ->
                   {[w |-> Logged(w, Started("spawn_err", "", None, b)),
                     r |-> Err(WinswError("SpawnFailed", 0, <<>>))]}
              [] b.kind = "exit" /\ b.secs < timeout_secs /\ ~b.fills_pipe ->
                   LET ok == success([code |-> b.code])
                       code == UnwrapOr(b.code, IF ok THEN 0 ELSE -1)
                   IN  {[w |-> Wait(Logged(w, Started("spawn", "reaped",
                                                      Some([code |-> b.code]),
                                                      b)),
                                    b.secs),
                         r |-> Ok(ActionResp_success(read_output(b.stdout),
                                                     read_output(b.stderr),
                                                     code))]}
              [] b.kind = "wait_err" ->
                   {[w |-> Logged(w, Started("spawn", st, None, b)),
                     r |-> Err(WinswError("WaitFailed", 0, <<>>))]
                    : st \in {"running", "reaped"}}
              [] OTHER ->
                   (* child.kill().await; child.wait().await *)
                   {[w |-> Wait(Logged(w, Started("spawn", "reaped", None, b)),
                                timeout_secs),
                     r |-> Err(WinswError("Timeout", timeout_secs, <<>>))]}
    IN  IF IsErr(built) THEN {[w |-> w, r |-> built]}
        ELSE UNION {run(b) : b \in Behaviours}

winsw_action(w, host, action, req) ==
    LET validated == validate_action(action)
        winsw_path == IF req # None /\ Unwrap(req).winsw_path # None
                      THEN Unwrap(Unwrap(req).winsw_path)
                      ELSE DEFAULT_WINSW_PATH
        timeout_secs == IF req # None /\ Unwrap(req).timeout_seconds # None
                        THEN Unwrap(Unwrap(req).timeout_seconds)
                        ELSE WINSW_DEFAULT_TIMEOUT_SECS
        config == IF req # None THEN Unwrap(req).config ELSE None
        custom_env == IF req # None THEN Unwrap(req).env_vars ELSE None
    IN  IF IsErr(validated)
        THEN {[w |-> w,
               r |-> ActionResp_failure(-1, WinswErrorToString(validated[2])),
               res |-> validated]}
        ELSE { [w |-> x.w,
                r |-> IF IsOk(x.r) THEN x.r[2]
                      ELSE ActionResp_failure(-1, WinswErrorToString(x.r[2])),
                res |-> x.r]
               : x \in execute_winsw(w, host, winsw_path, validated[2], config,
                                     timeout_secs, custom_env) }

----------------------------------------------------------------------------
(* What callers pass *)

Packages == {STR_git, STR_git_padded, STR_blank, STR_empty}

(* dry_run: None is the default, false *)
DryRuns == {None, Some(TRUE)}

Timeouts == {None, Some(CallerTimeoutSecs)}

InstallReqs ==
    [package : Packages, global : {None, Some(TRUE)}, timeout_seconds : Timeouts,
     dry_run : DryRuns, extra_args : {None, Some(<<STR_arch, STR_o>>)}]

UninstallReqs ==
    [package : Packages, purge : {None, Some(TRUE)}, timeout_seconds : Timeouts,
     dry_run : DryRuns]

BootstrapOptions == [timeout_seconds : Timeouts, dry_run : DryRuns]

(* InstallOptions as a caller of the library passes them to                *)
(* uninstall_package                                                       *)
InstallOptions ==
    [timeout_seconds : {None}, global : {None, Some(TRUE)}, dry_run : DryRuns,
     extra_args : {None, Some(<<STR_arch, STR_o>>)}]

Actions == {STR_start, STR_START, STR_stop_padded, STR_invalid}

ActionReqs ==
    {None} \cup
    { Some(q) : q \in [winsw_path : {None}, config : {None, Some(STR_config)},
                       timeout_seconds : Timeouts, env_vars : EnvVars] }

(* Hosts that differ in what the operation looks at *)
ShellHosts ==
    {h \in Hosts : ~h.which_scoop /\ h.home = None /\ ~h.config_exists
                     /\ h.env = <<>>}

ScoopHosts == {h \in Hosts : ~h.config_exists /\ h.env = <<>>}

ServiceHosts == {h \in Hosts : h.ps = None /\ ~h.which_scoop /\ h.home = None}

----------------------------------------------------------------------------
(* Concurrent access to DETECT_CACHE.  cell is the OnceCell: "uninit",     *)
(* "initializing" (one get_or_init runs its closure, the others wait) or   *)
(* "init".  lock is the RwLock: the tasks that hold a read guard and the   *)
(* tasks that hold a write guard.  tasks[t] is where task t stands in      *)
(* cache_get or cache_put.  written is the set of <<installed, version>>   *)
(* pairs that a cache_put has stored so far.                               *)

Tasks == 1..NumTasks

(* What the tasks pass to cache_put: (true, ver) as is_scoop_installed and *)
(* install_scoop put it, and (false, None) as is_scoop_installed puts it.  *)
PutArgs == {<<TRUE, Some(Trim(STR_out_v1))>>, <<FALSE, None>>}

(* A task: fn is the function it is in, pc the step it is at, installed    *)
(* and version what cache_put was passed, seen the installed flag that     *)
(* cache_get has read, r what cache_get returns.  For install_package and  *)
(* uninstall_package, seen tells whether another task held a guard when    *)
(* the call started, and r is what the call did to the cache.  caller is   *)
(* the function that called cache_get or cache_put, "" when the task       *)
(* called it directly.                                                     *)
Task(fn, pc, installed, version, seen, r) ==
    [fn |-> fn, pc |-> pc, installed |-> installed, version |-> version,
     seen |-> seen, r |-> r, caller |-> ""]

IdleTask == Task("", "idle", FALSE, None, FALSE, None)

Unlocked == [readers |-> {}, writers |-> {}]

(* RwLock::read().await returns once no task holds the write guard *)
RwLock_read(l) == l.writers = {}

(* a write guard that is handed out while read guards are held *)
RwLock_write_among_readers(l) ==
    l.writers = {}

(* RwLock::write().await returns once no task holds any guard *)
RwLock_write(l) ==
    l.readers = {} /\ l.writers = {}

sync_vars == <<cell, lock, tasks, written, scoop_dir>>

----------------------------------------------------------------------------
(* State.  cache is DETECT_CACHE; call is the call that has just returned  *)
(* to the caller (op "idle": none); prev is what the call before it        *)
(* answered when that was a successful scoop_detect.                       *)

Idle ==
    [op |-> "idle", req |-> None, host |-> None, res |-> None, resp |-> None,
     log |-> <<>>]

Call(op, req, host, x) ==
    [op |-> op, req |-> Some(req), host |-> Some(host), res |-> Some(x.res),
     resp |-> Some(x.r), log |-> x.w.log]

Init ==
    /\ cache = None
    /\ call = Idle
    /\ prev = None
    /\ cell = "uninit"
    /\ lock = Unlocked
    /\ tasks = [t \in Tasks |-> IdleTask]
    /\ written = {}
    /\ scoop_dir = FALSE

(* One public operation, from the call to its return *)
Returns(op, req, host, x) ==
    /\ cache' = x.w.cache
    /\ call' = Call(op, req, host, x)
    /\ UNCHANGED prev
    /\ UNCHANGED sync_vars

ScoopDetect ==
    /\ call.op = "idle"
    /\ \E host \in ScoopHosts :
         \E x \in scoop_detect(World(cache), host) :
           Returns("scoop_detect", <<>>, host, x)

ScoopInstall ==
    /\ call.op = "idle"
    /\ \E host \in ShellHosts, req \in InstallReqs :
         \E x \in scoop_install(World(cache), host, req) :
           Returns("scoop_install", req, host, x)

ScoopUninstall ==
    /\ call.op = "idle"
    /\ \E host \in ShellHosts, req \in UninstallReqs :
         \E x \in scoop_uninstall(World(cache), host, req) :
           Returns("scoop_uninstall", req, host, x)

ScoopEnsure ==
    /\ call.op = "idle"
    /\ \E host \in ScoopHosts, req \in BootstrapOptions :
         \E x \in scoop_ensure(World(cache), host, req) :
           Returns("scoop_ensure", req, host, x)

WinswAction ==
    /\ call.op = "idle"
    /\ \E host \in ServiceHosts, action \in Actions, req \in ActionReqs :
         \E x \in winsw_action(World(cache), host, action, req) :
           Returns("winsw_action", [action |-> action, req |-> req], host, x)

(* The library functions that are public without a Tauri command *)
IsScoopInstalled ==
    /\ call.op = "idle"
    /\ \E host \in ScoopHosts :
         \E x \in is_scoop_installed(World(cache), host) :
           Returns("is_scoop_installed", <<>>, host,
                   [w |-> x.w, r |-> x.r, res |-> x.r])

UninstallPackage ==
    /\ call.op = "idle"
    /\ \E host \in ShellHosts, purge \in BOOLEAN, opts \in InstallOptions :
         \E x \in uninstall_package(World(cache), host, STR_git, purge, opts) :
           Returns("uninstall_package",
                   [package |-> STR_git, purge |-> Some(purge),
                    global |-> opts.global, dry_run |-> opts.dry_run,
                    timeout_seconds |-> opts.timeout_seconds,
                    extra_args |-> opts.extra_args],
                   host, [w |-> x.w, r |-> x.r, res |-> x.r])

InstallScoop ==
    /\ call.op = "idle"
    /\ \E host \in ShellHosts, opts \in BootstrapOptions :
         \E x \in install_scoop(World(cache), host, opts) :
           Returns("install_scoop", opts, host,
                   [w |-> x.w, r |-> x.r, res |-> x.r])

ScoopVersion ==
    /\ call.op = "idle"
    /\ \E host \in ShellHosts :
         \E x \in scoop_version(World(cache), host) :
           Returns("scoop_version", <<>>, host,
                   [w |-> x.w, r |-> x.r, res |-> x.r])

DetectionCacheCall ==
    /\ call.op = "idle"
    /\ LET g == detection_cache(World(cache))
       IN  Returns("detection_cache", <<>>, CHOOSE h \in ShellHosts : TRUE,
                   [w |-> g.w, r |-> g.r, res |-> Ok(g.r)])

(* The caller takes the answer *)
Ack ==
    /\ call.op # "idle"
    /\ call' = Idle
    /\ prev' = IF call.op = "scoop_detect" /\ Unwrap(call.resp).ok
               THEN Some([installed |-> Unwrap(call.resp).installed,
                          version |-> Unwrap(call.resp).version])
               ELSE None
    /\ UNCHANGED cache
    /\ UNCHANGED sync_vars

(* Time passes between two calls *)
Elapse ==
    /\ call.op = "idle"
    /\ cache' = Later(cache, IdleSecs)
    /\ UNCHANGED <<call, prev>>
    /\ UNCHANGED sync_vars

Next ==
    \/ ScoopDetect
    \/ ScoopInstall
    \/ ScoopUninstall
    \/ ScoopEnsure
    \/ WinswAction
    \/ IsScoopInstalled
    \/ UninstallPackage
    \/ InstallScoop
    \/ ScoopVersion
    \/ DetectionCacheCall
    \/ Ack
    \/ Elapse

Spec == Init /\ [][Next]_vars

----------------------------------------------------------------------------
(* SpecCache: cache_get and cache_put step by step, run by NumTasks tasks  *)

Step(t, task) ==
    /\ tasks' = [tasks EXCEPT ![t] = task]
    /\ UNCHANGED <<call, prev, scoop_dir>>

(* a task calls cache_get() *)
CallCacheGet(t) ==
    /\ tasks[t].pc = "idle"
    /\ Step(t, Task("cache_get", "get_cache", FALSE, None, FALSE, None))
    /\ UNCHANGED <<cache, cell, lock, written>>

(* a task calls cache_put(installed, version) *)
CallCachePut(t) ==
    /\ tasks[t].pc = "idle"
    /\ \E a \in PutArgs :
         Step(t, Task("cache_put", "get_cache", a[1], a[2], FALSE, None))
    /\ UNCHANGED <<cache, cell, lock, written>>

(* get_cache: DETECT_CACHE.get_or_init(..).await.  The first task to come  *)
(* runs the closure; a task that comes while it runs waits; afterwards     *)
(* every task gets the same Arc.                                           *)
get_cache(t) ==
    /\ tasks[t].pc = "get_cache"
    /\ \/ /\ cell = "init"
          /\ Step(t, [tasks[t] EXCEPT !.pc = "lock"])
          /\ UNCHANGED <<cache, cell, lock, written>>
       \/ /\ cell = "uninit"
          /\ cell' = "initializing"
          /\ Step(t, [tasks[t] EXCEPT !.pc = "init"])
          /\ UNCHANGED <<cache, lock, written>>

(* the closure of get_or_init: Arc::new(RwLock::new(None)) *)
get_cache_init(t) ==
    /\ tasks[t].pc = "init"
    /\ cell' = "init"
    /\ cache' = None
    /\ lock' = Unlocked
    /\ Step(t, [tasks[t] EXCEPT !.pc = "lock"])
    /\ UNCHANGED written

(* cache_get: let guard = cache.read().await *)
cache_get_read(t) ==
    /\ tasks[t].pc = "lock" /\ tasks[t].fn = "cache_get"
    /\ RwLock_read(lock)
    /\ lock' = [lock EXCEPT !.readers = @ \cup {t}]
    /\ Step(t, [tasks[t] EXCEPT !.pc = "check"])
    /\ UNCHANGED <<cache, cell, written>>

(* cache_get: guard.as_ref(), the TTL test and the read of c.installed *)
cache_get_check(t) ==
    /\ tasks[t].pc = "check"
    /\ IF cache # None /\ cache[1].elapsed <= CACHE_TTL_SECS
       THEN Step(t, [tasks[t] EXCEPT !.pc = "clone",
                                     !.seen = cache[1].installed])
       ELSE Step(t, [tasks[t] EXCEPT !.pc = "drop", !.r = None])
    /\ UNCHANGED <<cache, cell, lock, written>>

(* cache_get: c.version.clone() and the DetectResp that is returned *)
cache_get_clone(t) ==
    /\ tasks[t].pc = "clone"
    /\ Step(t, [tasks[t] EXCEPT
                   !.pc = "drop",
                   !.r = Some(DetectResp(tasks[t].seen, cache[1].version, None,
                                         Some("cache"), TRUE))])
    /\ UNCHANGED <<cache, cell, lock, written>>

(* cache_put: let mut guard = cache.write().await *)
cache_put_write(t) ==
    /\ tasks[t].pc = "lock" /\ tasks[t].fn = "cache_put"
    /\ RwLock_write(lock)
    /\ lock' = [lock EXCEPT !.writers = @ \cup {t}]
    /\ Step(t, [tasks[t] EXCEPT !.pc = "store"])
    /\ UNCHANGED <<cache, cell, written>>

(* cache_put: *guard = Some(DetectionCache { .. }) *)
cache_put_store(t) ==
    /\ tasks[t].pc = "store"
    /\ cache' = cache_put(tasks[t].installed, tasks[t].version)
    /\ written' = written \cup {<<tasks[t].installed, tasks[t].version>>}
    /\ Step(t, [tasks[t] EXCEPT !.pc = "drop"])
    /\ UNCHANGED <<cell, lock>>

(* Where a task goes on when cache_get or cache_put returns to it:         *)
(* is_scoop_installed returns on a hit and after its put, and goes to the  *)
(* live check on a miss; install_scoop returns Ok after its put.           *)
Resume(task) ==
    IF task.caller = "is_scoop_installed" /\ task.fn = "cache_get"
       /\ task.r = None
    THEN [task EXCEPT !.fn = "is_scoop_installed", !.pc = "live"]
    ELSE IF task.caller = "install_scoop"
    THEN [task EXCEPT !.fn = "install_scoop", !.pc = "done"]
    ELSE IdleTask

(* the guard is dropped and the function returns *)
drop_guard(t) ==
    /\ tasks[t].pc = "drop"
    /\ lock' = [readers |-> lock.readers \ {t}, writers |-> lock.writers \ {t}]
    /\ Step(t, Resume(tasks[t]))
    /\ UNCHANGED <<cache, cell, written>>

(* The options of the package calls that run beside the cache tasks *)
PackageOptions ==
    [timeout_seconds : {None}, global : {None}, dry_run : DryRuns,
     extra_args : {None}]

CacheEvents(log) ==
    SelectSeq(log, LAMBDA e : e.ev \in {"cache_hit", "cache_miss", "cache_put"})

(* a task calls install_package or uninstall_package *)
CallPackage(t) ==
    /\ tasks[t].pc = "idle"
    /\ \E fn \in {"install_package", "uninstall_package"} :
         Step(t, Task(fn, "run", FALSE, None, lock # Unlocked, None))
    /\ UNCHANGED <<cache, cell, lock, written>>

(* the package call runs its command and returns, while time passes *)
PackageReturns(t) ==
    /\ tasks[t].pc = "run"
    /\ \E host \in ShellHosts, opts \in PackageOptions :
         \E x \in IF tasks[t].fn = "install_package"
                  THEN install_package(World(cache), host, STR_git, opts)
                  ELSE uninstall_package(World(cache), host, STR_git, FALSE,
                                         opts) :
           /\ cache' = x.w.cache
           /\ Step(t, [tasks[t] EXCEPT !.pc = "returned",
                                        !.r = Some(CacheEvents(x.w.log))])
    /\ UNCHANGED <<cell, lock, written>>

(* the caller takes the answer of the package call *)
PackageDone(t) ==
    /\ tasks[t].pc = "returned"
    /\ Step(t, IdleTask)
    /\ UNCHANGED <<cache, cell, lock, written>>

(* Time passes while the tasks run *)
Tick ==
    /\ cache # None
    /\ cache' = Later(cache, IdleSecs)
    /\ UNCHANGED <<call, prev, cell, lock, tasks, written, scoop_dir>>

NextCache ==
    \/ \E t \in Tasks : CallCacheGet(t)
    \/ \E t \in Tasks : CallCachePut(t)
    \/ \E t \in Tasks : get_cache(t)
    \/ \E t \in Tasks : get_cache_init(t)
    \/ \E t \in Tasks : cache_get_read(t)
    \/ \E t \in Tasks : cache_get_check(t)
    \/ \E t \in Tasks : cache_get_clone(t)
    \/ \E t \in Tasks : cache_put_write(t)
    \/ \E t \in Tasks : cache_put_store(t)
    \/ \E t \in Tasks : drop_guard(t)
    \/ \E t \in Tasks : CallPackage(t)
    \/ \E t \in Tasks : PackageReturns(t)
    \/ \E t \in Tasks : PackageDone(t)
    \/ Tick

SpecCache == Init /\ [][NextCache]_vars

----------------------------------------------------------------------------
(* SpecRace: is_scoop_installed and install_scoop run by the tasks.  The   *)
(* machine the tasks share has a PowerShell and no scoop on the PATH of    *)
(* this process; scoop_dir tells whether the scoop directory exists in the *)
(* home directory, which is what the install script creates.               *)

RaceHost ==
    [ps |-> Some(PS_PATH), which_scoop |-> FALSE, home |-> Some(scoop_dir),
     config_exists |-> FALSE, env |-> <<>>]

(* a task calls is_scoop_installed(): it starts with cache_get().await *)
CallIsScoopInstalled(t) ==
    /\ tasks[t].pc = "idle"
    /\ Step(t, [Task("cache_get", "get_cache", FALSE, None, FALSE, None)
                   EXCEPT !.caller = "is_scoop_installed"])
    /\ UNCHANGED <<cache, cell, lock, written>>

(* is_scoop_installed after the miss: which::which and the look at the     *)
(* home directory; what they find is what cache_put is then called with.   *)
LiveCheck(t) ==
    /\ tasks[t].pc = "live"
    /\ \E x \in is_scoop_installed_live(World(cache), RaceHost) :
         Step(t, [Task("cache_put", "get_cache", Unwrap(x.w.cache).installed,
                       Unwrap(x.w.cache).version, FALSE, None)
                    EXCEPT !.caller = "is_scoop_installed"])
    /\ UNCHANGED <<cache, cell, lock, written>>

(* a task calls install_scoop(opts): the processes run; when the install   *)
(* script has exited with success the scoop directory exists, and the task *)
(* calls cache_put(true, ver); otherwise install_scoop returns.            *)
InstallScoopRuns(t) ==
    /\ tasks[t].pc = "idle"
    /\ \E opts \in BootstrapOptions :
         \E x \in install_scoop(World(cache), RaceHost, opts) :
           IF Puts(x.w.log) # <<>>
           THEN /\ scoop_dir' = TRUE
                /\ tasks' = [tasks EXCEPT ![t] =
                       [Task("cache_put", "get_cache",
                             Unwrap(x.w.cache).installed,
                             Unwrap(x.w.cache).version, FALSE, None)
                          EXCEPT !.caller = "install_scoop"]]
           ELSE /\ UNCHANGED scoop_dir
                /\ tasks' = [tasks EXCEPT ![t] = IdleTask]
    /\ UNCHANGED <<cache, call, prev, cell, lock, written>>

NextRace ==
    \/ \E t \in Tasks : CallIsScoopInstalled(t)
    \/ \E t \in Tasks : LiveCheck(t)
    \/ \E t \in Tasks : InstallScoopRuns(t)
    \/ \E t \in Tasks : get_cache(t)
    \/ \E t \in Tasks : get_cache_init(t)
    \/ \E t \in Tasks : cache_get_read(t)
    \/ \E t \in Tasks : cache_get_check(t)
    \/ \E t \in Tasks : cache_get_clone(t)
    \/ \E t \in Tasks : cache_put_write(t)
    \/ \E t \in Tasks : cache_put_store(t)
    \/ \E t \in Tasks : drop_guard(t)
    \/ Tick

SpecRace == Init /\ [][NextRace]_vars

----------------------------------------------------------------------------
(* Reading the call that has just returned *)

Returned == call.op # "idle"

Req == Unwrap(call.req)

Res == Unwrap(call.res)

Resp == Unwrap(call.resp)

(* The call started with a cache hit (is_scoop_installed's first step) *)
StartedWithHit == call.log # <<>> /\ call.log[1].ev = "cache_hit"

StartedWithMiss == call.log # <<>> /\ call.log[1].ev = "cache_miss"

VersionProbeArgs == build_ps_command_args(STR_scoop_version)

(* The processes of the operation itself, the version probes left out *)
CommandSpawns(log) ==
    SelectSeq(log, LAMBDA e : e.ev = "spawn" /\ e.args # VersionProbeArgs)

DryRunOps == {"scoop_install", "scoop_uninstall", "scoop_ensure", "install_scoop"}

----------------------------------------------------------------------------
(* C1: whenever a supervised invocation hands Timeout back to its caller,  *)
(* no child process of that invocation is still running: the child was     *)
(* killed and reaped first.                                                *)
C1_TimeoutReapsChild ==
    (Returned /\ IsErr(Res) /\ Res[2].kind = "Timeout")
        => \A i \in DOMAIN call.log : call.log[i].child # "running"

(* C2: a call with dry_run = true spawns no process and leaves the cache   *)
(* entry as it was.                                                        *)
C2_DryRunNoSpawnNoCacheWrite ==
    [][(call.op = "idle" /\ call'.op \in DryRunOps
          /\ Unwrap(call'.req).dry_run = Some(TRUE))
         => (Spawns(call'.log) = <<>> /\ cache' = cache)]_vars

(* C3: install, uninstall and bootstrap with dry_run = true and an operand *)
(* that is not empty after trimming return ok = true, code = 0, no error   *)
(* and the command line as stdout, on every host.                          *)
C3_DryRunAlwaysSucceeds ==
    /\ (call.op \in {"scoop_install", "scoop_uninstall"}
          /\ Req.dry_run = Some(TRUE) /\ Trim(Req.package) # <<>>)
         => /\ IsOk(Res)
            /\ Res[2].ok /\ Res[2].code = 0 /\ Res[2].error = None
            /\ Res[2].stdout # None
            /\ Contains(Unwrap(Res[2].stdout),
                        IF call.op = "scoop_install" THEN STR_scoop_install
                        ELSE Trim(STR_scoop_uninstall))
    /\ (call.op = "install_scoop" /\ Req.dry_run = Some(TRUE))
         => /\ IsOk(Res)
            /\ Res[2].ok /\ Res[2].code = 0 /\ Res[2].error = None
            /\ Res[2].stdout = Some(set_policy \o <<"\n">> \o install_cmd)

(* C4: when the process of an operation ran to completion without success  *)
(* (a non-zero exit code, or no exit code), the library call fails with    *)
(* CommandFailed and the response has ok = false and an error text.        *)
C4_FailedExitIsFailure ==
    (/\ call.op \in {"scoop_install", "scoop_uninstall", "install_scoop",
                     "winsw_action"}
     /\ \E i \in DOMAIN CommandSpawns(call.log) :
          LET st == CommandSpawns(call.log)[i].status
          IN  st # None /\ ~success(Unwrap(st)))
        => /\ call.op # "winsw_action"
                => IsErr(Res) /\ Res[2].kind = "CommandFailed"
           /\ call.op # "install_scoop"
                => ~Resp.ok /\ Resp.error # None

(* C5: a public command answers every internal error with ok = false, the  *)
(* error's description, and code = the exit code when the error carries    *)
(* one, -1 otherwise.                                                      *)
C5_ErrorResponseKeepsExitCode ==
    /\ (call.op \in {"scoop_install", "scoop_uninstall"} /\ IsErr(Res))
         => /\ ~Resp.ok
            /\ Resp.error = Some(ScoopErrorToString(Res[2]))
            /\ Resp.code = IF Res[2].kind = "CommandFailed" /\ Res[2].code # None
                           THEN Unwrap(Res[2].code) ELSE -1
    /\ (call.op = "winsw_action" /\ IsErr(Res))
         => /\ ~Resp.ok
            /\ Resp.error = Some(WinswErrorToString(Res[2]))
            /\ Resp.code = -1
    /\ (call.op \in {"scoop_detect", "scoop_ensure"} /\ IsErr(Res))
         => ~Resp.ok /\ Resp.error = Some(ScoopErrorToString(Res[2]))

(* C6: cache get is a hit exactly when an entry exists and is at most 60   *)
(* seconds old (exactly 60 is a hit); a hit carries the entry's installed  *)
(* flag and version with cached = true and source "cache"; get leaves the  *)
(* entry as it is.                                                         *)
C6_GetHitsIffWithinTtl ==
    [][(call.op = "idle" /\ call'.op = "detection_cache")
         => LET r == Unwrap(call'.resp)
            IN  /\ (r # None) <=> (cache # None /\ cache[1].elapsed <= 60)
                /\ r # None
                     => r[1] = [installed |-> cache[1].installed,
                                version |-> cache[1].version, error |-> None,
                                source |-> Some("cache"), cached |-> TRUE]
                /\ cache' = cache]_vars

(* a get on an entry that is exactly 60 seconds old, which hits *)
C6_Witness ==
    /\ call.op = "detection_cache"
    /\ cache # None /\ cache[1].elapsed = 60
    /\ Resp # None

(* C7: an is_scoop_installed call that finds the entry absent or expired   *)
(* overwrites it: when it returns, the last thing it did was one put, the  *)
(* entry is fresh (an immediate detection_cache() is Some, cached = true)  *)
(* and its installed flag is the value returned.                           *)
C7_MissEndsWithFreshEntry ==
    (call.op = "is_scoop_installed" /\ StartedWithMiss)
        => /\ IsOk(Res)
           /\ Len(Puts(call.log)) = 1
           /\ call.log[Len(call.log)].ev = "cache_put"
           /\ cache_get(cache) # None
           /\ Unwrap(cache_get(cache)).cached
           /\ Unwrap(cache_get(cache)).installed = Res[2]

(* a live check that found nothing and cached that *)
C7_Witness ==
    /\ call.op = "is_scoop_installed" /\ StartedWithMiss
    /\ Res = Ok(FALSE)
    /\ cache # None /\ ~cache[1].installed

(* C8: a scoop_detect that follows a scoop_detect and starts within the    *)
(* TTL of the entry answers with the same installed flag and version as    *)
(* the first, and with cached = true.                                      *)
C8_SecondDetectRepeatsFirst ==
    (call.op = "scoop_detect" /\ prev # None /\ StartedWithHit)
        => /\ Resp.installed = prev[1].installed
           /\ Resp.version = prev[1].version
           /\ Resp.cached

(* C9: a scoop_detect that finds an unexpired entry spawns no process.     *)
C9_DetectOnFreshEntrySpawnsNothing ==
    (call.op = "scoop_detect" /\ StartedWithHit) => Spawns(call.log) = <<>>

(* C10: when a bootstrap install that is not a dry run returns success,    *)
(* the cache holds a fresh entry with installed = true, put after the      *)
(* install script exited with success, whether or not the version probe    *)
(* that follows gave a version.                                            *)
C10_BootstrapSuccessPutsInstalled ==
    (call.op = "install_scoop" /\ Req.dry_run # Some(TRUE) /\ IsOk(Res))
        => /\ cache # None
           /\ cache[1].installed
           /\ cache[1].elapsed = 0
           /\ cache_get(cache) # None
           /\ call.log[Len(call.log)].ev = "cache_put"
           /\ \E i \in DOMAIN call.log :
                /\ call.log[i].ev = "spawn"
                /\ call.log[i].args = build_ps_command_args(install_cmd)
                /\ call.log[i].status = Some([code |-> Some(0)])

(* a successful bootstrap whose version probe failed *)
C10_Witness ==
    /\ call.op = "install_scoop" /\ Req.dry_run # Some(TRUE) /\ IsOk(Res)
    /\ cache # None /\ cache[1].installed /\ cache[1].version = None

(* C11: on the detection cache a put excludes every get and every other   *)
(* put, while gets may overlap; so every hit carries an installed flag and *)
(* a version that one single put stored together, the entry itself is      *)
(* always one put's pair, and the cache is initialised once, before any    *)
(* guard is handed out.                                                    *)
C11_PutExcludesGetsAndPuts ==
    /\ Cardinality(lock.writers) <= 1
    /\ lock.writers # {} => lock.readers = {}
    /\ \A t \in Tasks :
         (tasks[t].fn = "cache_get" /\ tasks[t].pc = "drop" /\ tasks[t].r # None)
            => <<tasks[t].r[1].installed, tasks[t].r[1].version>> \in written
    /\ cache # None => <<cache[1].installed, cache[1].version>> \in written
    /\ cell # "init" => cache = None /\ lock = Unlocked /\ written = {}
    /\ \A t \in Tasks :
         tasks[t].pc \in {"lock", "check", "clone", "store", "drop"}
            => cell = "init"

(* two gets overlap, one of them with its hit, after two different puts *)
C11_Witness ==
    /\ Cardinality(lock.readers) >= 2
    /\ Cardinality(written) >= 2
    /\ \E t \in lock.readers : tasks[t].pc = "drop" /\ tasks[t].r # None

(* C12: ensure_scoop_installed answers installed = true only when its     *)
(* first detection found the tool, or when the install script of a         *)
(* bootstrap it ran exited with success and a detection made after it      *)
(* found the tool.                                                         *)
C12_EnsureInstalledOnlyAfterDetection ==
    (call.op = "scoop_ensure" /\ IsOk(Res) /\ Res[2].installed)
        => \/ Res[2].source = Some("detect")
           \/ \E i \in DOMAIN call.log :
                /\ call.log[i].ev = "spawn"
                /\ call.log[i].args = build_ps_command_args(install_cmd)
                /\ call.log[i].status = Some([code |-> Some(0)])
                /\ \E j \in DOMAIN call.log :
                     j > i /\ call.log[j].ev \in {"cache_hit", "cache_miss"}

ValidationErrors ==
    {"InvalidPackageName", "UnsupportedAction", "ConfigRequired", "ConfigNotFound"}

(* C13: a call that returns a validation error (InvalidPackageName,        *)
(* UnsupportedAction, ConfigRequired, ConfigNotFound) has done nothing     *)
(* before: no process spawned or attempted, no cache access, and the cache *)
(* is as it was.                                                           *)
C13_ValidationErrorBeforeAnySpawn ==
    [][(call.op = "idle" /\ call'.op # "idle"
          /\ IsErr(Unwrap(call'.res))
          /\ Unwrap(call'.res)[2].kind \in ValidationErrors)
         => (call'.log = <<>> /\ cache' = cache)]_vars

(* a service action refused for its missing config file, with an entry in  *)
(* the cache                                                               *)
C13_Witness ==
    /\ call.op = "winsw_action"
    /\ IsErr(Res) /\ Res[2].kind = "ConfigNotFound"
    /\ call.log = <<>>
    /\ cache # None

(* C14: scoop_install and scoop_uninstall of a package name that is empty *)
(* after trimming fail with InvalidPackageName, whatever the other options *)
(* are and whether or not the host has PowerShell.                         *)
C14_BlankNameIsInvalid ==
    (call.op \in {"scoop_install", "scoop_uninstall"}
       /\ \A i \in DOMAIN Req.package : Req.package[i] = " ")
        => /\ Res = Err(InvalidPackageName)
           /\ ~Resp.ok

(* an uninstall of "  " as a dry run, with purge, on a host without        *)
(* PowerShell                                                              *)
C14_Witness ==
    /\ call.op = "scoop_uninstall"
    /\ Req.package = STR_blank
    /\ Req.dry_run = Some(TRUE) /\ Req.purge = Some(TRUE)
    /\ Unwrap(call.host).ps = None
    /\ Res = Err(InvalidPackageName)

(* The action of a winsw_action call as passed, and the name it stands for *)
(* in the cases the tests of validate_action name.                         *)
ReqAction == Req.action

NormalizedAction ==
    CASE ReqAction = STR_start -> STR_start
      [] ReqAction = STR_START -> STR_start
      [] ReqAction = STR_stop_padded -> STR_stop
      [] OTHER -> ToLowercase(Trim(ReqAction))

AllowList ==
    { STR_install, STR_uninstall, STR_start, STR_stop, STR_restart,
      STR_restart_force, STR_status, STR_refresh }

(* C15: winsw_action accepts an action exactly when its trimmed and        *)
(* lower-cased form is in the allow-list, and then runs WinSW with that    *)
(* normalized name as its first argument; every other string fails with    *)
(* UnsupportedAction carrying the string as passed.                        *)
C15_ActionAcceptedIffAllowed ==
    call.op = "winsw_action"
        => /\ (NormalizedAction \in AllowList)
                <=> ~(IsErr(Res) /\ Res[2].kind = "UnsupportedAction")
           /\ NormalizedAction \notin AllowList
                => /\ Res = Err(WinswError("UnsupportedAction", 0, ReqAction))
                   /\ ~Resp.ok
                   /\ call.log = <<>>
           /\ \A i \in DOMAIN call.log : call.log[i].args[1] = NormalizedAction

(* "  stop  " accepted and run as stop *)
C15_Witness ==
    /\ call.op = "winsw_action"
    /\ ReqAction = STR_stop_padded
    /\ Spawns(call.log) # <<>>
    /\ Spawns(call.log)[1].args[1] = STR_stop

(* The config path of a winsw_action call: None without req or without    *)
(* req.config                                                              *)
ReqConfig == IF Req.req = None THEN None ELSE Unwrap(Req.req).config

(* C16: for an allowed action (all of them need a config): without a       *)
(* config path the call fails with ConfigRequired; with a path that does   *)
(* not exist it fails with ConfigNotFound; neither starts a process; with  *)
(* a path that exists WinSW is started once, with exactly the arguments    *)
(* [action, config path].                                                  *)
C16_ConfigRequiredAndFound ==
    (call.op = "winsw_action" /\ NormalizedAction \in AllowList)
        => /\ ReqConfig = None
                => /\ Res = Err(WinswError("ConfigRequired", 0, NormalizedAction))
                   /\ call.log = <<>>
           /\ (ReqConfig # None /\ ~Unwrap(call.host).config_exists)
                => /\ Res = Err(WinswError("ConfigNotFound", 0, Unwrap(ReqConfig)))
                   /\ call.log = <<>>
           /\ (ReqConfig # None /\ Unwrap(call.host).config_exists)
                => /\ Len(call.log) = 1
                   /\ call.log[1].ev \in {"spawn", "spawn_err"}
                   /\ call.log[1].args = <<NormalizedAction, Unwrap(ReqConfig)>>

(* "START" with a config file that is not there *)
C16_Witness ==
    /\ call.op = "winsw_action"
    /\ ReqAction = STR_START
    /\ ReqConfig = Some(STR_config)
    /\ ~Unwrap(call.host).config_exists
    /\ Res = Err(WinswError("ConfigNotFound", 0, STR_config))

STR_scoop == <<"s", "c", "o", "o", "p">>

STR_purge == <<"-", "-", "p", "u", "r", "g", "e">>

(* The tokens of a package command: the base command, the flags the        *)
(* options select, the trimmed operand, the caller's extra arguments.      *)
CommandTokens(verb, flags, package, extra_args) ==
    <<STR_scoop, verb>> \o flags \o <<Trim(package)>>
        \o UnwrapOr(extra_args, <<>>)

ExpectedCmdline ==
    IF call.op = "scoop_install"
    THEN Join(CommandTokens(STR_install,
                            IF Req.global = Some(TRUE) THEN <<STR_global>>
                            ELSE <<>>,
                            Req.package, Req.extra_args), <<" ">>)
    ELSE Join(CommandTokens(STR_uninstall,
                            IF Req.purge = Some(TRUE) THEN <<STR_purge>>
                            ELSE <<>>,
                            Req.package,
                            IF call.op = "uninstall_package"
                            THEN Req.extra_args ELSE None), <<" ">>)

(* C17: the command line of an install or uninstall is the space-joined    *)
(* sequence of: scoop install / scoop uninstall, --global when global is   *)
(* set (install), --purge when purge is set (uninstall), the trimmed       *)
(* operand, then every element of extra_args in the caller's order.  A dry *)
(* run returns it as stdout; a real run passes it to PowerShell as the     *)
(* script.                                                                 *)
C17_CmdlineIsJoinedTokens ==
    (/\ call.op \in {"scoop_install", "scoop_uninstall", "uninstall_package"}
     /\ Trim(Req.package) # <<>>
     /\ Unwrap(call.host).ps # None)
        => IF Req.dry_run = Some(TRUE)
           THEN IsOk(Res) /\ Res[2].stdout = Some(ExpectedCmdline)
           ELSE /\ Len(call.log) = 1
                /\ call.log[1].args = build_ps_command_args(ExpectedCmdline)

(* The caller's env_vars of a winsw_action call, as a map (empty when the  *)
(* caller passes none).                                                    *)
ReqEnvVars ==
    IF Req.req = None \/ Unwrap(Req.req).env_vars = None THEN <<>>
    ELSE Unwrap(Unwrap(Req.req).env_vars)

(* C18: in the environment passed to a WinSW process, every name of the    *)
(* caller's env_vars has the caller's value, whatever the inherited        *)
(* environment and the injections (PATH, SystemRoot, TEMP, TMP) hold for   *)
(* it; every other name has the value the composition gives it without     *)
(* the caller: an inherited variable other than PATH its inherited value,  *)
(* SystemRoot C:\Windows when it was not inherited.                        *)
C18_CallerEnvWins ==
    (call.op = "winsw_action" /\ call.log # <<>>)
        => LET env == Unwrap(call.log[1].env)
               inherited == Unwrap(call.host).env
               composed == get_enhanced_env(None, inherited)
           IN  /\ DOMAIN env = DOMAIN composed \cup DOMAIN ReqEnvVars
               /\ \A k \in DOMAIN ReqEnvVars : env[k] = ReqEnvVars[k]
               /\ \A k \in DOMAIN composed \ DOMAIN ReqEnvVars :
                    /\ env[k] = composed[k]
                    /\ (k \in DOMAIN inherited /\ k # "PATH")
                         => env[k] = inherited[k]
                    /\ (k = "SystemRoot" /\ k \notin DOMAIN inherited)
                         => env[k] = SYS_Windows

(* a process started with the caller's PATH and SystemRoot in place of the *)
(* inherited ones, and the inherited TEMP and K                            *)
C18_Witness ==
    /\ call.op = "winsw_action"
    /\ Spawns(call.log) # <<>>
    /\ "PATH" \in DOMAIN ReqEnvVars
    /\ "SystemRoot" \in DOMAIN Unwrap(call.host).env
    /\ Unwrap(call.log[1].env) =
         [PATH |-> STR_c, SystemRoot |-> STR_c, TMP |-> STR_c, N |-> STR_c,
          TEMP |-> STR_t, K |-> STR_h]

(* The timeout in force for the command of the call: the caller's         *)
(* timeout_seconds when there is one, otherwise the default of the         *)
(* operation.                                                              *)
EffectiveTimeout ==
    CASE call.op \in {"scoop_install", "scoop_uninstall", "uninstall_package"} ->
           IF Req.timeout_seconds # None THEN Req.timeout_seconds[1] ELSE 600
      [] call.op \in {"install_scoop", "scoop_ensure"} ->
           IF Req.timeout_seconds # None THEN Req.timeout_seconds[1] ELSE 120
      [] call.op = "winsw_action" ->
           IF Req.req # None /\ Unwrap(Req.req).timeout_seconds # None
           THEN Unwrap(Req.req).timeout_seconds[1] ELSE 30
      [] OTHER -> 10

(* C19: a call that returns Timeout returns it with the effective timeout  *)
(* of the invocation (the caller's timeout_seconds, else 600 for install   *)
(* and uninstall, 120 for each bootstrap step, 10 for a version probe, 30  *)
(* for a service action) and with no stdout or stderr; every process is    *)
(* waited for with that timeout, a version probe with 10.                  *)
C19_TimeoutCarriesEffectiveSeconds ==
    /\ (Returned /\ IsErr(Res) /\ Res[2].kind = "Timeout")
         => /\ Res[2].secs = EffectiveTimeout
            /\ Res[2].text = <<>>
            /\ call.op \in {"scoop_install", "scoop_uninstall", "winsw_action"}
                 => ~Resp.ok /\ Resp.stdout = None /\ Resp.stderr = None
    /\ Returned
         => \A i \in DOMAIN call.log :
              call.log[i].ev = "spawn"
                => call.log[i].timeout_secs =
                     IF call.log[i].args = VersionProbeArgs THEN 10
                     ELSE EffectiveTimeout

(* a bootstrap with the caller's timeout whose install script did not end  *)
(* in time, after the policy step did                                      *)
C19_Witness ==
    /\ call.op = "install_scoop"
    /\ Req.timeout_seconds = Some(CallerTimeoutSecs)
    /\ Len(call.log) = 2
    /\ Res = Err(Timeout(CallerTimeoutSecs))

(* C20: install_package and uninstall_package never use the detection     *)
(* cache: from call to return they do no cache_get and no cache_put, take  *)
(* no guard, and leave the entry as it was (only older), whatever the      *)
(* outcome, whatever the cache holds and whatever the other tasks are      *)
(* doing with the cache meanwhile.                                         *)
C20_PackageCallsLeaveCacheAlone ==
    [][\A t \in Tasks :
         (tasks[t].pc = "run" /\ tasks'[t].pc = "returned")
            => /\ tasks'[t].r = Some(<<>>)
               /\ lock' = lock /\ cell' = cell /\ written' = written
               /\ (cache' = None) <=> (cache = None)
               /\ cache # None
                    => /\ cache'[1].installed = cache[1].installed
                       /\ cache'[1].version = cache[1].version
                       /\ cache'[1].elapsed >= cache[1].elapsed]_vars

(* a package call that started and returned while another task held the   *)
(* write guard of the cache, which holds a stale entry                     *)
C20_Witness ==
    \E t \in Tasks :
      /\ tasks[t].fn \in {"install_package", "uninstall_package"}
      /\ tasks[t].pc = "returned"
      /\ tasks[t].seen
      /\ \E u \in lock.writers : tasks[u].pc = "store"
      /\ cache # None /\ cache[1].elapsed > CACHE_TTL_SECS

(* The process events of a call: processes started and failed attempts *)
SpawnAttempts(log) ==
    SelectSeq(log, LAMBDA e : e.ev \in {"spawn", "spawn_err"})

(* C21: a live detection that finds scoop on the PATH runs one version     *)
(* probe (one process at most, exactly one when there is a PowerShell),    *)
(* and whatever becomes of the probe it returns true and puts an entry     *)
(* with installed = true, whose version is the trimmed output of the probe *)
(* when the probe exited with success and None otherwise.                  *)
C21_OnPathIsInstalledWhateverTheProbe ==
    (/\ call.op = "is_scoop_installed" /\ StartedWithMiss
     /\ Unwrap(call.host).which_scoop)
        => /\ Res = Ok(TRUE)
           /\ cache # None /\ cache[1].installed /\ cache[1].elapsed = 0
           /\ Len(SpawnAttempts(call.log)) =
                IF Unwrap(call.host).ps = None THEN 0 ELSE 1
           /\ \A i \in DOMAIN SpawnAttempts(call.log) :
                SpawnAttempts(call.log)[i].args = VersionProbeArgs
           /\ (cache[1].version # None)
                <=> /\ Spawns(call.log) # <<>>
                    /\ Spawns(call.log)[1].status = Some([code |-> Some(0)])
           /\ cache[1].version # None
                => /\ Trim(Unwrap(cache[1].version)) = Unwrap(cache[1].version)
                   /\ \E b \in Behaviours :
                        /\ b.code = Some(0)
                        /\ b.stdout \in { Unwrap(cache[1].version),
                                           Unwrap(cache[1].version) \o <<"\n">> }

(* scoop is on the PATH and its version probe ran into the timeout *)
C21_Witness ==
    /\ call.op = "is_scoop_installed" /\ StartedWithMiss
    /\ Unwrap(call.host).which_scoop
    /\ Spawns(call.log) # <<>>
    /\ Spawns(call.log)[1].status = None
    /\ Spawns(call.log)[1].child = "running"
    /\ cache = Some(DetectionCache(0, TRUE, None))

(* install_scoop has returned Ok after writing the cache *)
BootstrapReturned ==
    \E u \in Tasks : tasks[u].fn = "install_scoop" /\ tasks[u].pc = "done"

(* C22: once install_scoop has returned success, every hit of cache_get    *)
(* reports installed = true, however the bootstrap and the detections      *)
(* interleave: a detection that saw no scoop before the bootstrap finished *)
(* does not replace the entry of the bootstrap with installed = false.     *)
C22_HitsAfterBootstrapAreInstalled ==
    BootstrapReturned
        => \A t \in Tasks :
             (tasks[t].fn = "cache_get" /\ tasks[t].pc = "drop"
              /\ tasks[t].r # None)
                => Unwrap(tasks[t].r).installed

(* The seconds a call has waited for the processes it gave up on: each     *)
(* timed out wait lasted its timeout_secs.                                 *)
RECURSIVE TimedOutSecs(_)
TimedOutSecs(log) ==
    IF log = <<>> THEN 0
    ELSE (IF Head(log).ev = "spawn" /\ Head(log).status = None
          THEN Head(log).timeout_secs ELSE 0) + TimedOutSecs(Tail(log))

(* C23: the entry carries the time of the live check that found its        *)
(* installed flag.  When is_scoop_installed returns after a live check,    *)
(* the entry is as old as that check, so at least as old as the time the   *)
(* call waited for its version probe after the check; a later hit never    *)
(* hands out a finding that is older than the TTL.                         *)
C23_EntryIsAsOldAsItsLiveCheck ==
    (/\ call.op = "is_scoop_installed" /\ StartedWithMiss
     /\ Puts(call.log) # <<>>)
        => /\ cache # None
           /\ cache[1].elapsed >= TimedOutSecs(call.log)

(* C24: a service action whose process exits within the timeout when its   *)
(* pipes are read returns the outcome of the process with all of its       *)
(* stdout and stderr, and not Timeout, also when the process writes more   *)
(* than a pipe holds.                                                      *)
C24_ExitInTimeReturnsWholeOutput ==
    \A i \in DOMAIN Spawns(call.log) :
        LET e == Spawns(call.log)[i]
            b == Unwrap(e.proc)
        IN  (/\ call.op = "winsw_action" /\ e.proc # None
             /\ b.kind = "exit" /\ b.secs < e.timeout_secs)
                => /\ Resp.error = None
                   /\ Resp.stdout = read_output(b.stdout)
                   /\ Resp.stderr = read_output(b.stderr)

(* The arguments of the processes a call tried to start, in order *)
AttemptArgs(log) ==
    [i \in DOMAIN SpawnAttempts(log) |-> SpawnAttempts(log)[i].args]

(* The process was started and exited with success *)
Succeeded(e) == e.ev = "spawn" /\ e.status = Some([code |-> Some(0)])

BootstrapSteps ==
    <<build_ps_command_args(set_policy), build_ps_command_args(install_cmd)>>

(* C25: a bootstrap that is not a dry run starts the execution policy step *)
(* and then the install script, in that order and each at most once; when  *)
(* the policy step did not start or did not exit with success the install  *)
(* script is not started; and when the bootstrap returns an error, no      *)
(* version probe was started and the cache entry is as it was (only older, *)
(* or absent as before).                                                   *)
C25_BootstrapStepsInOrderAndNoTraceOnError ==
    [][(/\ call.op = "idle" /\ call'.op = "install_scoop"
        /\ Unwrap(call'.req).dry_run # Some(TRUE))
         => LET log == call'.log
                tried == SpawnAttempts(log)
                steps == SelectSeq(AttemptArgs(log),
                                   LAMBDA a : a # VersionProbeArgs)
            IN  /\ Len(steps) <= 2
                /\ steps = SubSeq(BootstrapSteps, 1, Len(steps))
                /\ Len(steps) = 2 => Succeeded(tried[1])
                /\ \A i \in DOMAIN tried :
                     tried[i].args = VersionProbeArgs
                        => i = 3 /\ Succeeded(tried[2])
                /\ IsErr(Unwrap(call'.res))
                     => /\ VersionProbeArgs \notin
                             {AttemptArgs(log)[i] : i \in DOMAIN tried}
                        /\ Puts(log) = <<>>
                        /\ (cache' = None) <=> (cache = None)
                        /\ cache # None
                             => /\ cache'[1].installed = cache[1].installed
                                /\ cache'[1].version = cache[1].version
                                /\ cache'[1].elapsed >= cache[1].elapsed]_vars

(* the policy step exited with code 1: nothing else was started, the call  *)
(* returned an error and the entry that was there is still there           *)
C25_Witness ==
    /\ call.op = "install_scoop" /\ Req.dry_run # Some(TRUE)
    /\ IsErr(Res)
    /\ Len(SpawnAttempts(call.log)) = 1
    /\ SpawnAttempts(call.log)[1].args = BootstrapSteps[1]
    /\ SpawnAttempts(call.log)[1].status = Some([code |-> Some(1)])
    /\ cache # None /\ cache[1].installed

(* C26: scoop_detect and scoop_ensure answer cached = true exactly when    *)
(* the installed flag of the call came from an entry that cache_get found  *)
(* unexpired; a call that made the live check itself answers cached =      *)
(* false.                                                                  *)
C26_CachedIffServedFromCache ==
    (call.op \in {"scoop_detect", "scoop_ensure"} /\ Resp.ok)
        => (Resp.cached <=> StartedWithHit)

(* C27: the environment passed to a WinSW process has TEMP, TMP and        *)
(* SystemRoot, each of them unless the caller's env_vars names it: with    *)
(* the inherited value when the inherited environment has the name, with a *)
(* default otherwise (C:\Windows for SystemRoot).                          *)
C27_BaselineVariablesPresent ==
    (call.op = "winsw_action" /\ call.log # <<>>)
        => LET env == Unwrap(call.log[1].env)
               inherited == Unwrap(call.host).env
           IN  \A k \in {"TEMP", "TMP", "SystemRoot"} \ DOMAIN ReqEnvVars :
                   /\ k \in DOMAIN env
                   /\ k \in DOMAIN inherited => env[k] = inherited[k]
                   /\ (k = "SystemRoot" /\ k \notin DOMAIN inherited)
                        => env[k] = SYS_Windows

====
